---------------------------- MODULE Spec2Model ----------------------------
(***************************************************************************)
(* A model of tcprs: the packet loop of src/main.rs and the connection     *)
(* state machine of src/tcp.rs.                                            *)
(*                                                                         *)
(* 32-bit sequence numbers keep their width.  TLC's integers are 32-bit    *)
(* signed, so a u32 is the pair <<hi, lo>> of its 16-bit halves and the    *)
(* wrapping operations carry and borrow between the halves: U32(0, 1000)   *)
(* is 1000 and U32(65535, 65533) is 2^32 - 3.                              *)
(***************************************************************************)
EXTENDS Integers, Sequences, FiniteSets, TLC

VARIABLES
    connections,    \* main's HashMap<Quad, Connection>
    buf,            \* the datagram the last nic.recv put in main's buffer
    sent,           \* the datagrams the last loop iteration handed to nic.send
    status,         \* "running", or how main ended: "panicked", "io_error"
    op,             \* what the last step did: the branch of main, or the API call
    invalid_range,  \* the last on_packet logged "invalid range" and returned
    prev,           \* history: connections as it was before the last step
    steps,          \* how many datagrams and calls there have been
    appended,       \* history: per connection, the sequence number of every
                    \* byte that was ever put on its incoming queue, in order
    woken,          \* the last loop iteration signalled a waiting thread
    tunnel,         \* for each nic.send of the last step, whether it returned Ok
    arg,            \* the argument of a call into src/lib.rs
    ret             \* what that call returned

\* the packet loop and its connections
mainvars == <<connections, buf, sent, status, op, invalid_range, prev, steps,
              appended, woken, tunnel>>

\* a call into the header parser or the checksum of src/lib.rs
libvars == <<arg, ret>>

vars == <<connections, buf, sent, status, op, invalid_range, prev, steps,
          appended, woken, tunnel, arg, ret>>

----------------------------------------------------------------------------
(* u32 arithmetic on <<hi, lo>> pairs *)

Half == 256 * 256

U32(hi, lo) == <<hi, lo>>

\* `n as u32` / `n.into()` for a value below 2^31 (a length, a u16 window)
ToU32(n) == <<n \div Half, n % Half>>

wrapping_add(a, b) ==
    LET lo == a[2] + b[2]
        hi == a[1] + b[1] + (lo \div Half)
    IN  <<hi % Half, lo % Half>>

wrapping_sub(a, b) ==
    LET borrow == IF a[2] < b[2] THEN 1 ELSE 0
        lo == a[2] - b[2] + borrow * Half
        hi == a[1] - b[1] - borrow + Half
    IN  <<hi % Half, lo>>

\* a > n for a u32 a and a number n below 2^16: the comparison of
\* `unread_at > data.len()` after `as usize`
U32GtSmall(a, n) == a[1] > 0 \/ a[2] > n

\* the value of a u32 known to be below 2^16
U32Low(a) == a[2]

Min(a, b) == IF a < b THEN a ELSE b

\* wrapping_lt as it would be if a distance of exactly 2^31 counted as less
wrapping_lt_Inclusive(lhs, rhs) ==
    LET d == wrapping_sub(lhs, rhs)
    IN  d[1] >= (Half \div 2)

\* lhs.wrapping_sub(rhs) > (1 << 31)
wrapping_lt(lhs, rhs) ==
    LET d == wrapping_sub(lhs, rhs)
    IN  d[1] > (Half \div 2) \/ (d[1] = (Half \div 2) /\ d[2] > 0)

is_between_wrapped(start, target, end) ==
    wrapping_lt(start, target) /\ wrapping_lt(target, end)

----------------------------------------------------------------------------
(* src/tcp.rs: Available, State, Connection *)

CAP_READ == 1

is_readable(x) == (x.flag % (2 * CAP_READ)) \div CAP_READ > 0

States == {"SynRcvd", "Estab", "FinWait1", "FinWait2", "CloseWait", "Closing", "TimeWait"}

is_recv_closed(c) == IF c.state = "TimeWait" THEN TRUE ELSE FALSE

availability(c) ==
    IF is_recv_closed(c) \/ c.incoming # <<>>
    THEN [flag |-> CAP_READ]
    ELSE [flag |-> 0]

\* The sizes Connection::write works with: its stack buffer and the two
\* option-less headers it writes before the payload.
WRITE_BUF_LEN == 1500
IPV4_HEADER_LEN == 20
TCP_HEADER_LEN == 20

\* What a call returns: the connection after it, the datagrams it handed to
\* nic.send, and whether it returned Ok.
Sent(c, out, ok) == [c |-> c, out |-> out, ok |-> ok]

\* Connection::write.  The template's sequence and acknowledgment numbers
\* are set to seq and recv.nxt (lines 214-215) before the header is
\* serialised (229) and are read nowhere else, so the model keeps them in
\* the datagram only; whatever a caller stored in them is overwritten.  The
\* SYN and FIN flags are cleared and send.nxt is set (233-242) after the
\* header was serialised; nic.send comes last.
write(c, seq, payload, nic_ok) ==
    LET tcph == c.tcph
        payload_bytes == Min(Len(payload),
                             WRITE_BUF_LEN - IPV4_HEADER_LEN - TCP_HEADER_LEN)
        seq1 == wrapping_add(seq, ToU32(payload_bytes))
        seq2 == IF tcph.syn THEN wrapping_add(seq1, ToU32(1)) ELSE seq1
        next_seq == IF tcph.fin THEN wrapping_add(seq2, ToU32(1)) ELSE seq2
        datagram == [src |-> c.local, dst |-> c.remote,
                     sequence_number |-> seq,
                     acknowledgment_number |-> c.recv.nxt,
                     syn |-> tcph.syn, ack |-> tcph.ack,
                     fin |-> tcph.fin, rst |-> tcph.rst,
                     window_size |-> tcph.window_size,
                     payload |-> SubSeq(payload, 1, payload_bytes)]
    IN  Sent([c EXCEPT !.tcph = [tcph EXCEPT !.syn = FALSE, !.fin = FALSE],
                       !.send.nxt = next_seq],
             <<datagram>>, nic_ok)

send_ack(c, payload, nic_ok) == write(c, c.send.nxt, payload, nic_ok)

\* Connection::send_rst: the zero it stores in the template's acknowledgment
\* number (line 263) is overwritten by write (line 215)
send_rst(c, nic_ok) ==
    write([c EXCEPT !.tcph.rst = TRUE], U32(0, 0), <<>>, nic_ok)

\* The connection Connection::accept builds before it sends (lines 156-199).
NewConnection(seg) ==
    LET iss == U32(0, 0)
        wnd == 1024
    IN  [state |-> "SynRcvd",
         send |-> [iss |-> iss, una |-> iss, nxt |-> iss, wnd |-> wnd,
                   up |-> FALSE, wl1 |-> 0, wl2 |-> 0],
         recv |-> [irs |-> seg.sequence_number,
                   nxt |-> wrapping_add(seg.sequence_number, ToU32(1)),
                   wnd |-> seg.window_size,
                   up |-> FALSE],
         tcph |-> [window_size |-> wnd,
                   syn |-> TRUE, ack |-> TRUE, fin |-> FALSE, rst |-> FALSE],
         local |-> seg.quad.dst,
         remote |-> seg.quad.src,
         incoming |-> <<>>,
         unacked |-> <<>>,
         closed |-> FALSE]

\* accept as it would be if the SYN it sends took no sequence number
accept_SynNotCounted(seg, nic_ok) ==
    IF ~seg.syn
    THEN [some |-> FALSE, out |-> <<>>]
    ELSE LET w == send_ack(NewConnection(seg), <<>>, nic_ok)
         IN  [some |-> TRUE, c |-> [w.c EXCEPT !.send.nxt = w.c.send.iss],
              out |-> w.out]

\* Connection::accept: None for a segment without SYN, else the new
\* connection after its SYN+ACK was sent; the result of the send is dropped.
accept(seg, nic_ok) ==
    IF ~seg.syn
    THEN [some |-> FALSE, out |-> <<>>]
    ELSE LET w == send_ack(NewConnection(seg), <<>>, nic_ok)
         IN  [some |-> TRUE, c |-> w.c, out |-> w.out]

----------------------------------------------------------------------------
(* Connection::on_packet, in the order of its code *)

\* slen (lines 281-287)
SegLen(seg) ==
    Len(seg.data) + (IF seg.syn THEN 1 ELSE 0) + (IF seg.fin THEN 1 ELSE 0)

\* valid_range as it would be if only the first byte of a segment were tested
valid_range_FirstByteOnly(c, seg) ==
    LET seq  == seg.sequence_number
        slen == ToU32(SegLen(seg))
        toe  == wrapping_add(c.recv.nxt, ToU32(c.recv.wnd))
        before == wrapping_sub(c.recv.nxt, ToU32(1))
    IN  IF slen = ToU32(0)
        THEN IF c.recv.wnd = 0
             THEN seq # c.recv.nxt
             ELSE is_between_wrapped(before, seq, toe)
        ELSE c.recv.wnd # 0 /\ is_between_wrapped(before, seq, toe)

\* valid_range (lines 288-303)
valid_range(c, seg) ==
    LET seq  == seg.sequence_number
        slen == ToU32(SegLen(seg))
        toe  == wrapping_add(c.recv.nxt, ToU32(c.recv.wnd))
        before == wrapping_sub(c.recv.nxt, ToU32(1))
    IN  IF slen = ToU32(0)
        THEN IF c.recv.wnd = 0
             THEN seq # c.recv.nxt
             ELSE is_between_wrapped(before, seq, toe)
        ELSE c.recv.wnd # 0
             /\ (\/ is_between_wrapped(before, seq, toe)
                 \/ is_between_wrapped(
                        before,
                        wrapping_sub(wrapping_add(seq, slen), ToU32(1)),
                        toe))

\* the test of lines 327-331 on the ACK of a connection in SynRcvd
SynRcvdAckOk(c, seg) ==
    is_between_wrapped(wrapping_sub(c.send.una, ToU32(1)),
                       seg.acknowledgment_number,
                       wrapping_add(c.send.nxt, ToU32(1)))

\* lines 339-347: the ACK moves send.una; nothing is taken off `unacked`
AckOfData(c, seg) ==
    IF c.state \in {"Estab", "FinWait1", "FinWait2"}
       /\ is_between_wrapped(c.send.una, seg.acknowledgment_number,
                             wrapping_add(c.send.nxt, ToU32(1)))
    THEN [c EXCEPT !.send.una = seg.acknowledgment_number]
    ELSE c

\* lines 349-354
OurFinAcked(c) ==
    IF c.state = "FinWait1" /\ c.send.una = wrapping_add(c.send.iss, ToU32(2))
    THEN [c EXCEPT !.state = "FinWait2"]
    ELSE c

\* unread_at (lines 358-362)
UnreadAt(c, seg) ==
    LET unread_at == wrapping_sub(c.recv.nxt, seg.sequence_number)
    IN  IF U32GtSmall(unread_at, Len(seg.data)) THEN 0 ELSE U32Low(unread_at)

\* lines 356-368: in Estab, FinWait1 and FinWait2 the payload past unread_at
\* goes on the incoming queue, recv.nxt becomes seq + len, and an ACK is sent,
\* whether or not the segment carries data.
DataDelivery(c, seg, nic_ok) ==
    IF c.state \in {"Estab", "FinWait1", "FinWait2"}
    THEN send_ack([c EXCEPT
                     !.incoming = @ \o SubSeq(seg.data, UnreadAt(c, seg) + 1,
                                              Len(seg.data)),
                     !.recv.nxt = wrapping_add(seg.sequence_number,
                                               ToU32(Len(seg.data)))],
                  <<>>, nic_ok)
    ELSE Sent(c, <<>>, TRUE)

\* lines 375-396
FinHandling(c, seg, nic_ok) ==
    IF ~seg.fin THEN Sent(c, <<>>, TRUE)
    ELSE CASE c.state \in {"SynRcvd", "Estab"} ->
                Sent([c EXCEPT !.state = "CloseWait"], <<>>, TRUE)
           [] c.state = "FinWait1" ->
                IF seg.ack /\ c.send.una = wrapping_add(c.send.iss, ToU32(2))
                THEN Sent([c EXCEPT !.state = "TimeWait"], <<>>, TRUE)
                ELSE send_ack([c EXCEPT !.state = "Closing"], <<>>, nic_ok)
           [] c.state = "FinWait2" ->
                LET w == write(c, U32(0, 0), <<>>, nic_ok)
                IN  IF w.ok
                    THEN Sent([w.c EXCEPT !.state = "TimeWait"], w.out, TRUE)
                    ELSE w
           [] OTHER -> Sent(c, <<>>, TRUE)

\* What on_packet comes to: the connection after it, the datagrams handed to
\* nic.send, how it ended ("ok": Ok(availability), "err": the io error of a
\* send, "panic": the assertion of line 316) and whether it took the
\* "invalid range" return.
Outcome(c, out, result, invalid) ==
    [c |-> c, out |-> out, result |-> result, invalid |-> invalid,
     available |-> availability(c)]

\* nic[k] tells whether the k-th nic.send of the call succeeds
on_packet(c, seg, nic) ==
    IF ~valid_range(c, seg) THEN Outcome(c, <<>>, "ok", TRUE)
    ELSE IF ~seg.ack THEN
        IF seg.syn
        THEN IF seg.data # <<>>
             THEN Outcome(c, <<>>, "panic", FALSE)
             ELSE Outcome([c EXCEPT !.recv.nxt =
                              wrapping_add(seg.sequence_number, ToU32(1))],
                          <<>>, "ok", FALSE)
        ELSE Outcome(c, <<>>, "ok", FALSE)
    ELSE IF c.state = "SynRcvd" /\ ~SynRcvdAckOk(c, seg) THEN
        LET w == send_rst(c, nic[1])
        IN  Outcome(w.c, w.out, "ok", FALSE)
    ELSE
        LET c1 == IF c.state = "SynRcvd" THEN [c EXCEPT !.state = "Estab"] ELSE c
            c2 == OurFinAcked(AckOfData(c1, seg))
            d  == DataDelivery(c2, seg, nic[1])
            f  == FinHandling(d.c, seg, nic[Len(d.out) + 1])
        IN  IF ~d.ok THEN Outcome(d.c, d.out, "err", FALSE)
            ELSE Outcome(f.c, d.out \o f.out,
                         IF f.ok THEN "ok" ELSE "err", FALSE)

\* Connection::close
close(c) == [c EXCEPT !.closed = TRUE]

\* send_fin as it would be if it entered FinWait1 from whatever state
send_fin_AnyState(c, nic_ok) ==
    LET w == write([c EXCEPT !.tcph.fin = TRUE], c.send.nxt, <<>>, nic_ok)
    IN  IF w.ok
        THEN Sent([w.c EXCEPT !.state = "FinWait1"], w.out, TRUE)
        ELSE w

\* Connection::send_fin: the state moves only after the write returned Ok
send_fin(c, nic_ok) ==
    LET w == write([c EXCEPT !.tcph.fin = TRUE], c.send.nxt, <<>>, nic_ok)
    IN  IF w.ok /\ w.c.state = "Estab"
        THEN Sent([w.c EXCEPT !.state = "FinWait1"], w.out, TRUE)
        ELSE w

----------------------------------------------------------------------------
(* The datagrams the tunnel delivers *)

MaxSteps == 5

Peer  == <<"192.168.0.2", 40000>>
Local == <<"192.168.0.1", 8000>>
Q1 == [src |-> Peer, dst |-> Local]

\* a second client of the same server port
Peer2 == <<"192.168.0.2", 40001>>
Q2 == [src |-> Peer2, dst |-> Local]

Hello == <<104, 101, 108, 108, 111>>
OneByte == <<120>>
TenBytes == <<48, 49, 50, 51, 52, 53, 54, 55, 56, 57>>

\* a TCP segment as main sees it after both headers parsed
Seg(q, seq, ackno, syn, ack, fin, rst, wnd, data) ==
    [kind |-> "tcp", quad |-> q,
     sequence_number |-> seq, acknowledgment_number |-> ackno,
     syn |-> syn, ack |-> ack, fin |-> fin, rst |-> rst,
     window_size |-> wnd, data |-> data]

\* a datagram main drops before it looks for a connection: not IPv4
\* ("unknown"), IPv4 but not TCP ("not_tcp"), a TCP header that does not
\* parse ("weird")
Junk == {[kind |-> k] : k \in {"unknown", "not_tcp", "weird"}}

\* an IPv4 datagram of protocol TCP whose total length field is below its
\* header length: the header parses and payload_len() is an Err
ShortTotalLen == [kind |-> "short_total_len"]

\* the peer's initial sequence numbers: 1000, and 2^32 - 3 (its data wraps)
Isn     == U32(0, 1000)
IsnWrap == U32(65535, 65533)

\* the ACK flag and number of a segment: no ACK, or an ACK of 0, 1 or 2
Acks == {<<FALSE, U32(0, 0)>>, <<TRUE, U32(0, 0)>>, <<TRUE, U32(0, 1)>>,
         <<TRUE, U32(0, 2)>>}

\* segments without payload around the peer's ISN 1000: every combination of
\* SYN, FIN and ACK
ControlSegments(q) ==
    {Seg(q, seq, a[2], syn, a[1], fin, FALSE, 1024, <<>>) :
        seq \in {U32(0, 1000), U32(0, 1001), U32(0, 1006)},
        a \in Acks, syn \in BOOLEAN, fin \in BOOLEAN}

\* segments with payload: in sequence, overlapping, ahead, with FIN, far out
\* of the window, with SYN and FIN around old data, and with SYN but no ACK
DataSegments(q) ==
    {Seg(q, seq, U32(0, 1), FALSE, TRUE, fin, FALSE, 1024, Hello) :
        seq \in {U32(0, 1000), U32(0, 1001), U32(0, 1006)}, fin \in BOOLEAN}
    \cup
    {Seg(q, U32(0, 5000), U32(0, 1), FALSE, TRUE, FALSE, FALSE, 1024, OneByte),
     Seg(q, U32(0, 999), U32(0, 1), TRUE, TRUE, TRUE, FALSE, 1024, OneByte),
     Seg(q, U32(0, 1001), U32(0, 0), TRUE, FALSE, FALSE, FALSE, 1024, OneByte)}

\* a SYN that advertises no window, an ACK far from any window, and a
\* segment with SYN, FIN and ACK whose second sequence number is the one after
\* "hello" sent at 1001
WindowSegments(q) ==
    {Seg(q, Isn, U32(0, 0), TRUE, FALSE, FALSE, FALSE, 0, <<>>),
     Seg(q, U32(0, 5000), U32(0, 1), FALSE, TRUE, FALSE, FALSE, 1024, <<>>),
     Seg(q, U32(0, 1005), U32(0, 1), TRUE, TRUE, TRUE, FALSE, 1024, <<>>)}

\* a peer whose sequence numbers wrap: its SYN, its ACK, its data
WrapSegments(q) ==
    {Seg(q, IsnWrap, U32(0, 0), TRUE, FALSE, FALSE, FALSE, 1024, <<>>),
     Seg(q, U32(65535, 65534), U32(0, 1), FALSE, TRUE, FALSE, FALSE, 1024, <<>>),
     Seg(q, U32(65535, 65534), U32(0, 1), FALSE, TRUE, FALSE, FALSE, 1024, Hello),
     Seg(q, IsnWrap, U32(0, 1), FALSE, TRUE, FALSE, FALSE, 1024, TenBytes)}

\* segments with RST
RstSegments(q) ==
    {Seg(q, Isn, a[2], syn, a[1], FALSE, TRUE, 1024, <<>>) :
        syn \in BOOLEAN, a \in {<<FALSE, U32(0, 0)>>, <<TRUE, U32(0, 1)>>}}

\* the handshake of the second client, and its SYN sent again
OtherPeerSegments(q) ==
    {Seg(q, Isn, U32(0, 0), TRUE, FALSE, FALSE, FALSE, 1024, <<>>),
     Seg(q, U32(0, 1001), U32(0, 1), FALSE, TRUE, FALSE, FALSE, 1024, <<>>)}

Segments ==
    ControlSegments(Q1) \cup DataSegments(Q1) \cup WindowSegments(Q1)
    \cup WrapSegments(Q1) \cup RstSegments(Q1) \cup OtherPeerSegments(Q2)

\* the tunnel takes every datagram: each nic.send of a call returns Ok
NicUp == <<TRUE, TRUE>>

----------------------------------------------------------------------------
(* src/main.rs: one iteration of the loop per step *)

\* The ports with a registered listener.  main keeps one table, the
\* connections (line 9): there is no listener table and nothing binds a port.
BoundPorts == {}

NoDatagram == [kind |-> "none"]

\* no call into src/lib.rs: main parses with etherparse (main.rs, lines 3-4)
NoCall == [fn |-> "none"]

\* The sequence numbers of the bytes a call of on_packet put on the incoming
\* queue: the queue grew by the last k bytes of the payload (line 363,
\* `self.incoming.extend(&data[unread_at..])`), and byte i of the payload has
\* the number SEG.SEQ + i.
ByteNumbers(before, after, seg) ==
    LET k == Len(after.incoming) - Len(before.incoming)
    IN  [i \in 1..k |->
            wrapping_add(seg.sequence_number, ToU32(Len(seg.data) - k + i - 1))]

\* Lines 9-11: the table is empty; the tunnel is open, or Iface's constructor
\* returned Err and `?` (line 10) ended main before the loop.
Init ==
    /\ connections = <<>>
    /\ buf = NoDatagram
    /\ sent = <<>>
    /\ status \in {"running", "io_error"}
    /\ op = "idle"
    /\ invalid_range = FALSE
    /\ prev = <<>>
    /\ steps = 0
    /\ appended = <<>>
    /\ woken = FALSE
    /\ tunnel = <<>>
    /\ arg = NoCall
    /\ ret = NoCall

\* main is blocked in nic.recv and no call on a connection is under way; the
\* model follows the program for MaxSteps datagrams and calls
Idle == status = "running" /\ op = "idle" /\ steps < MaxSteps

\* nic.recv returns Err and `?` ends main (line 13): no datagram, nothing sent
RecvFails ==
    /\ status = "running"
    /\ op = "idle"
    /\ buf' = NoDatagram
    /\ sent' = <<>>
    /\ status' = "io_error"
    /\ op' = "recv_err"
    /\ invalid_range' = FALSE
    /\ prev' = connections
    /\ woken' = FALSE
    /\ tunnel' = <<>>
    /\ UNCHANGED <<connections, steps, appended, arg, ret>>

\* ip_hdr.payload_len().unwrap() in the log line of lines 33-39: it runs for
\* every IPv4 datagram of protocol TCP, before the TCP header is parsed, and
\* panics when payload_len() is an Err
RecvBadLength(d) ==
    /\ Idle
    /\ d = ShortTotalLen
    /\ buf' = d
    /\ sent' = <<>>
    /\ status' = "panicked"
    /\ op' = "drop"
    /\ invalid_range' = FALSE
    /\ prev' = connections
    /\ steps' = steps + 1
    /\ woken' = FALSE
    /\ tunnel' = <<>>
    /\ UNCHANGED <<connections, appended, arg, ret>>

\* the Err arms and the `continue` of lines 26-32, 70-77
RecvDropped(d) ==
    /\ Idle
    /\ d \in Junk
    /\ buf' = d
    /\ sent' = <<>>
    /\ op' = "drop"
    /\ invalid_range' = FALSE
    /\ prev' = connections
    /\ steps' = steps + 1
    /\ woken' = FALSE
    /\ tunnel' = <<>>
    /\ UNCHANGED <<connections, status, appended, arg, ret>>

\* Entry::Occupied as it would be if a SYN for a four-tuple with a connection
\* were given to Connection::accept and the new connection took the old
\* one's place
RecvOccupied_SynReplaces(seg, nic) ==
    /\ Idle
    /\ seg.quad \in DOMAIN connections
    /\ \E r \in {on_packet(connections[seg.quad], seg, nic)},
          a \in {accept(seg, nic[1])} :
           IF seg.syn /\ ~seg.ack
           THEN /\ connections' = [connections EXCEPT ![seg.quad] = a.c]
                /\ sent' = a.out
                /\ status' = status
                /\ invalid_range' = FALSE
                /\ appended' = [appended EXCEPT ![seg.quad] = <<>>]
           ELSE /\ connections' = [connections EXCEPT ![seg.quad] = r.c]
                /\ sent' = r.out
                /\ status' = CASE r.result = "ok" -> "running"
                               [] r.result = "err" -> "io_error"
                               [] r.result = "panic" -> "panicked"
                /\ invalid_range' = r.invalid
                /\ appended' = [appended EXCEPT ![seg.quad] =
                        @ \o ByteNumbers(connections[seg.quad], r.c, seg)]
    /\ buf' = seg
    /\ op' = "on_packet"
    /\ prev' = connections
    /\ steps' = steps + 1
    /\ woken' = FALSE
    /\ tunnel' = nic
    /\ UNCHANGED <<arg, ret>>

\* Entry::Occupied (lines 50-57)
RecvOccupied(seg, nic) ==
    /\ Idle
    /\ seg.quad \in DOMAIN connections
    /\ \E r \in {on_packet(connections[seg.quad], seg, nic)} :
           /\ connections' = [connections EXCEPT ![seg.quad] = r.c]
           /\ sent' = r.out
           /\ status' = CASE r.result = "ok" -> "running"
                          [] r.result = "err" -> "io_error"
                          [] r.result = "panic" -> "panicked"
           /\ invalid_range' = r.invalid
           /\ appended' = [appended EXCEPT ![seg.quad] =
                   @ \o ByteNumbers(connections[seg.quad], r.c, seg)]
    /\ buf' = seg
    /\ op' = "on_packet"
    /\ prev' = connections
    /\ steps' = steps + 1
    /\ woken' = FALSE
    /\ tunnel' = nic
    /\ UNCHANGED <<arg, ret>>

\* Entry::Vacant (lines 58-67)
RecvVacant(seg, nic) ==
    /\ Idle
    /\ seg.quad \notin DOMAIN connections
    /\ \E a \in {accept(seg, nic[1])} :
           /\ connections' =
                 IF a.some
                 THEN [q \in DOMAIN connections \cup {seg.quad} |->
                          IF q = seg.quad THEN a.c ELSE connections[q]]
                 ELSE connections
           /\ sent' = a.out
           /\ appended' =
                 IF a.some
                 THEN [q \in DOMAIN appended \cup {seg.quad} |->
                          IF q = seg.quad THEN <<>> ELSE appended[q]]
                 ELSE appended
    /\ buf' = seg
    /\ op' = "accept"
    /\ invalid_range' = FALSE
    /\ prev' = connections
    /\ steps' = steps + 1
    /\ woken' = FALSE
    /\ tunnel' = nic
    /\ UNCHANGED <<status, arg, ret>>

\* Connection::close, called for the connection of q
Close(q) ==
    /\ Idle
    /\ q \in DOMAIN connections
    /\ connections' = [connections EXCEPT ![q] = close(@)]
    /\ sent' = <<>>
    /\ op' = "close"
    /\ invalid_range' = FALSE
    /\ prev' = connections
    /\ steps' = steps + 1
    /\ tunnel' = <<>>
    /\ UNCHANGED <<buf, status, appended, woken, arg, ret>>

\* Connection::send_fin, called for the connection of q
SendFin(q, nic) ==
    /\ Idle
    /\ q \in DOMAIN connections
    /\ \E w \in {send_fin(connections[q], nic[1])} :
           /\ connections' = [connections EXCEPT ![q] = w.c]
           /\ sent' = w.out
    /\ op' = "send_fin"
    /\ invalid_range' = FALSE
    /\ prev' = connections
    /\ steps' = steps + 1
    /\ tunnel' = nic
    /\ UNCHANGED <<buf, status, appended, woken, arg, ret>>

\* The loop comes back to nic.recv (or the call returns to its caller).  The
\* next recv overwrites what buf holds before anything reads it, and the
\* record of the step that ended (sent, op, invalid_range, prev) starts anew.
LoopAgain ==
    /\ status = "running"
    /\ op # "idle"
    /\ buf' = NoDatagram
    /\ sent' = <<>>
    /\ op' = "idle"
    /\ invalid_range' = FALSE
    /\ prev' = <<>>
    /\ woken' = FALSE
    /\ tunnel' = <<>>
    /\ UNCHANGED <<connections, status, steps, appended, arg, ret>>

Next ==
    \/ RecvFails
    \/ \E d \in {ShortTotalLen} : RecvBadLength(d)
    \/ \E d \in Junk : RecvDropped(d)
    \/ \E seg \in Segments : RecvOccupied(seg, NicUp)
    \/ \E seg \in Segments : RecvVacant(seg, NicUp)
    \/ \E q \in {Q1} : Close(q)
    \/ \E q \in {Q1} : SendFin(q, NicUp)
    \/ LoopAgain

Spec == Init /\ [][Next]_vars
----------------------------------------------------------------------------
(* What the claims speak of *)

\* the connection the last datagram was for, before and after the step
Pre == prev[buf.quad]
Cur == connections[buf.quad]

\* the last step gave a segment to on_packet / to Connection::accept
Dispatched == op = "on_packet"
Offered    == op = "accept"

\* an acceptable segment as section 4.3 step 2 of the specification defines
\* it, with R = recv.nxt, W = recv.wnd, T = R + W
Acceptable(c, seg) ==
    LET R == c.recv.nxt
        W == c.recv.wnd
        T == wrapping_add(R, ToU32(W))
        before == wrapping_sub(R, ToU32(1))
        seq == seg.sequence_number
        last == wrapping_sub(wrapping_add(seq, ToU32(SegLen(seg))), ToU32(1))
    IN  \/ SegLen(seg) = 0 /\ W = 0 /\ seq = R
        \/ SegLen(seg) = 0 /\ W > 0 /\ is_between_wrapped(before, seq, T)
        \/ SegLen(seg) > 0 /\ W > 0
           /\ (is_between_wrapped(before, seq, T)
               \/ is_between_wrapped(before, last, T))

\* recv.nxt - SEG.SEQ clamped to [0, len]: 0 when the segment starts past
\* recv.nxt, len when it ends before it
ClampedOffset(c, seg) ==
    LET d == wrapping_sub(c.recv.nxt, seg.sequence_number)
    IN  IF wrapping_lt(c.recv.nxt, seg.sequence_number) THEN 0
        ELSE IF U32GtSmall(d, Len(seg.data)) THEN Len(seg.data)
        ELSE U32Low(d)

\* a bare ACK segment as write emits it for connection c
IsAck(d, seq, ackno) ==
    /\ d.ack /\ ~d.syn /\ ~d.fin
    /\ d.sequence_number = seq
    /\ d.acknowledgment_number = ackno
    /\ d.payload = <<>>

----------------------------------------------------------------------------
(* C1 *)

\* C1: when a segment with SYN set and ACK clear arrives for a four-tuple
\* without a connection, accept installs a connection in SynRcvd with iss = 0,
\* send.una = iss, send.wnd = 1024, recv.irs = SEG.SEQ, recv.nxt = SEG.SEQ + 1
\* (mod 2^32) and recv.wnd = SEG.WND, hands exactly one segment to the tunnel,
\* with SYN and ACK set, seq = iss and ack = recv.nxt, and leaves
\* send.nxt = iss + 1.
C1_PassiveOpen ==
    (Offered /\ buf.syn /\ ~buf.ack) =>
        /\ buf.quad \notin DOMAIN prev
        /\ buf.quad \in DOMAIN connections
        /\ Cur.state = "SynRcvd"
        /\ Cur.send.iss = U32(0, 0)
        /\ Cur.send.una = Cur.send.iss
        /\ Cur.send.wnd = 1024
        /\ Cur.recv.irs = buf.sequence_number
        /\ Cur.recv.nxt = wrapping_add(buf.sequence_number, ToU32(1))
        /\ Cur.recv.wnd = buf.window_size
        /\ Len(sent) = 1
        /\ sent[1].syn /\ sent[1].ack /\ ~sent[1].fin /\ ~sent[1].rst
        /\ sent[1].sequence_number = Cur.send.iss
        /\ sent[1].acknowledgment_number = Cur.recv.nxt
        /\ sent[1].payload = <<>>
        /\ Cur.send.nxt = wrapping_add(Cur.send.iss, ToU32(1))

\* the peer's SYN seq=1000 win=1024 was answered by SYN+ACK seq=0 ack=1001
C1_Witness ==
    /\ Offered
    /\ buf = Seg(Q1, U32(0, 1000), U32(0, 0), TRUE, FALSE, FALSE, FALSE, 1024, <<>>)
    /\ Cur.state = "SynRcvd"
    /\ Cur.recv.nxt = U32(0, 1001)
    /\ Cur.send.nxt = U32(0, 1)
    /\ Len(sent) = 1 /\ sent[1].syn /\ sent[1].ack
    /\ sent[1].acknowledgment_number = U32(0, 1001)

----------------------------------------------------------------------------
(* C2 *)

\* C2: for an acceptable segment with ACK set given to on_packet for a
\* connection in SynRcvd: if is_between_wrapped(send.una - 1, SEG.ACK,
\* send.nxt + 1) the connection is in Estab afterwards; otherwise a RST is
\* emitted and the connection stays in SynRcvd with recv.nxt and the incoming
\* queue unchanged.
C2_Handshake ==
    (Dispatched /\ Pre.state = "SynRcvd" /\ buf.ack /\ Acceptable(Pre, buf)) =>
        IF is_between_wrapped(wrapping_sub(Pre.send.una, ToU32(1)),
                              buf.acknowledgment_number,
                              wrapping_add(Pre.send.nxt, ToU32(1)))
        THEN Cur.state = "Estab"
        ELSE /\ Len(sent) = 1 /\ sent[1].rst
             /\ Cur.state = "SynRcvd"
             /\ Cur.recv.nxt = Pre.recv.nxt
             /\ Cur.incoming = Pre.incoming

----------------------------------------------------------------------------
(* C3 *)

\* C3: for a four-tuple without a connection, a first segment that is not a
\* SYN with ACK clear is discarded silently: no connection is installed and
\* no segment is emitted.
C3_OtherFirstSegmentDiscarded ==
    (Offered /\ ~(buf.syn /\ ~buf.ack)) =>
        connections = prev /\ sent = <<>>

----------------------------------------------------------------------------
(* C4 *)

\* C4: a segment for an unknown four-tuple whose destination port has no
\* registered listener is dropped: no connection is created and nothing is
\* emitted, whatever its flags.
C4_NoListenerDropped ==
    (Offered /\ buf.quad.dst[2] \notin BoundPorts) =>
        connections = prev /\ sent = <<>>

----------------------------------------------------------------------------
(* C5 *)

\* C5: with R = recv.nxt, W = recv.wnd, T = R + W and SEG.LEN = payload bytes
\* + 1 if SYN + 1 if FIN, on_packet accepts a segment, when W > 0, iff
\* (SEG.LEN = 0 and is_between_wrapped(R-1, SEG.SEQ, T)) or (SEG.LEN > 0 and
\* (is_between_wrapped(R-1, SEG.SEQ, T) or is_between_wrapped(R-1,
\* SEG.SEQ+SEG.LEN-1, T))); and when W = 0 it accepts no segment with
\* SEG.LEN > 0.
C5_AcceptabilityOpenWindow ==
    Dispatched =>
        LET R == Pre.recv.nxt
            W == Pre.recv.wnd
            T == wrapping_add(R, ToU32(W))
            LEN == Len(buf.data) + (IF buf.syn THEN 1 ELSE 0)
                                 + (IF buf.fin THEN 1 ELSE 0)
            first == is_between_wrapped(wrapping_sub(R, ToU32(1)),
                                        buf.sequence_number, T)
            last  == is_between_wrapped(
                         wrapping_sub(R, ToU32(1)),
                         wrapping_sub(wrapping_add(buf.sequence_number,
                                                   ToU32(LEN)), ToU32(1)),
                         T)
        IN  /\ W > 0 => (~invalid_range <=>
                            \/ LEN = 0 /\ first
                            \/ LEN > 0 /\ (first \/ last))
            /\ (W = 0 /\ LEN > 0) => invalid_range

\* "hello" at seq=1000 reached a connection with recv.nxt=1001 and an open
\* window: its first byte is old, its last is in the window, it was accepted
C5_Witness ==
    /\ Dispatched
    /\ buf.data = Hello /\ buf.sequence_number = U32(0, 1000)
    /\ Pre.recv.nxt = U32(0, 1001) /\ Pre.recv.wnd = 1024
    /\ ~invalid_range
    /\ Cur.recv.nxt = U32(0, 1005)

----------------------------------------------------------------------------
(* C6 *)

\* C6: when recv.wnd = 0, on_packet accepts a zero-length segment (no
\* payload, no SYN, no FIN) iff SEG.SEQ = recv.nxt.
C6_AcceptabilityZeroWindow ==
    (Dispatched /\ Pre.recv.wnd = 0 /\ SegLen(buf) = 0) =>
        (~invalid_range <=> buf.sequence_number = Pre.recv.nxt)

----------------------------------------------------------------------------
(* C7 *)

\* C7: an unacceptable segment given to an existing connection changes
\* nothing: state, send.una, send.nxt, recv.nxt, recv.wnd and both queues are
\* as before and no segment is emitted.
C7_UnacceptableChangesNothing ==
    (Dispatched /\ ~Acceptable(Pre, buf)) =>
        /\ Cur.state = Pre.state
        /\ Cur.send.una = Pre.send.una
        /\ Cur.send.nxt = Pre.send.nxt
        /\ Cur.recv.nxt = Pre.recv.nxt
        /\ Cur.recv.wnd = Pre.recv.wnd
        /\ Cur.incoming = Pre.incoming
        /\ Cur.unacked = Pre.unacked
        /\ sent = <<>>

----------------------------------------------------------------------------
(* C8 *)

\* C8: for an acceptable ACK-bearing segment with payload given to a
\* connection in Estab, FinWait1 or FinWait2, on_packet appends payload[off..]
\* to the incoming queue, off = recv.nxt - SEG.SEQ clamped to [0, len], sets
\* recv.nxt to SEG.SEQ + len (mod 2^32) and emits one ACK with seq = send.nxt,
\* ack = the new recv.nxt and no payload (the first segment it emits; the
\* FIN of the same segment may make it emit another).
C8_DataDelivery ==
    (/\ Dispatched
     /\ Pre.state \in {"Estab", "FinWait1", "FinWait2"}
     /\ buf.ack /\ buf.data # <<>>
     /\ Acceptable(Pre, buf)) =>
        /\ Cur.incoming = Pre.incoming
                \o SubSeq(buf.data, ClampedOffset(Pre, buf) + 1, Len(buf.data))
        /\ Cur.recv.nxt = wrapping_add(buf.sequence_number,
                                       ToU32(Len(buf.data)))
        /\ Len(sent) >= 1
        /\ IsAck(sent[1], Pre.send.nxt, Cur.recv.nxt)

----------------------------------------------------------------------------
(* C9 *)

\* C9: when an acceptable ACK-bearing segment with FIN and no payload reaches
\* a connection in Estab, the connection goes to CloseWait and the ACK it
\* emits has seq = send.nxt and ack = SEG.SEQ + 1.
C9_PassiveClose ==
    (/\ Dispatched
     /\ Pre.state = "Estab"
     /\ buf.ack /\ buf.fin /\ ~buf.syn /\ buf.data = <<>>
     /\ Acceptable(Pre, buf)) =>
        /\ Cur.state = "CloseWait"
        /\ Len(sent) = 1
        /\ IsAck(sent[1], Pre.send.nxt,
                 wrapping_add(buf.sequence_number, ToU32(1)))

----------------------------------------------------------------------------
(* C10 *)

\* C10: once the peer's FIN was processed in Estab (the connection is in
\* CloseWait) and the incoming queue is empty, the receive side counts as
\* closed: is_recv_closed holds and availability reports it readable.
C10_CloseWaitReadable ==
    (/\ Dispatched
     /\ Pre.state = "Estab" /\ buf.fin
     /\ Cur.state = "CloseWait" /\ Cur.incoming = <<>>) =>
        /\ is_recv_closed(Cur)
        /\ is_readable(availability(Cur))

----------------------------------------------------------------------------
(* C11 *)

\* C11: in Estab, an acceptable segment with ACK set, no payload, no SYN and
\* no FIN whose SEG.ACK equals send.una changes nothing (state, send.una,
\* send.nxt, recv.nxt and both queues are as before) and no segment is
\* emitted in response.
C11_DuplicateAck ==
    (/\ Dispatched
     /\ Pre.state = "Estab"
     /\ buf.ack /\ ~buf.syn /\ ~buf.fin /\ buf.data = <<>>
     /\ Acceptable(Pre, buf)
     /\ buf.acknowledgment_number = Pre.send.una) =>
        /\ Cur.state = Pre.state
        /\ Cur.send.una = Pre.send.una
        /\ Cur.send.nxt = Pre.send.nxt
        /\ Cur.recv.nxt = Pre.recv.nxt
        /\ Cur.incoming = Pre.incoming
        /\ Cur.unacked = Pre.unacked
        /\ sent = <<>>

----------------------------------------------------------------------------
(* C12 *)

\* a <= b in modulo-2^32 order: b is less than 2^31 ahead of a
SeqLeq(a, b) == wrapping_sub(b, a)[1] < Half \div 2

\* a < b in modulo-2^32 order
SeqLess(a, b) == a # b /\ SeqLeq(a, b)

\* C12: in every reachable state every connection has
\* send.una <= send.nxt <= send.una + send.wnd in modulo-2^32 order.
C12_SendSpaceInvariant ==
    \A q \in DOMAIN connections :
        LET c == connections[q]
        IN  /\ SeqLeq(c.send.una, c.send.nxt)
            /\ SeqLeq(c.send.nxt, wrapping_add(c.send.una, ToU32(c.send.wnd)))

----------------------------------------------------------------------------
(* C13 *)

\* C13: in every reachable state, every byte that was appended to a
\* connection's incoming queue has a sequence number strictly less than that
\* connection's recv.nxt, in modulo-2^32 order.
C13_DeliveredBelowRecvNxt ==
    \A q \in DOMAIN connections :
        \A i \in 1..Len(appended[q]) :
            SeqLess(appended[q][i], connections[q].recv.nxt)

----------------------------------------------------------------------------
(* C14 *)

\* C14: the bytes ever appended to a connection's incoming queue are the
\* peer's byte stream in sequence: the i-th byte appended has the sequence
\* number irs + i, so they form the contiguous range that starts at irs + 1,
\* without gap and without duplicate.
C14_DeliveredInSequence ==
    \A q \in DOMAIN connections :
        \A i \in 1..Len(appended[q]) :
            appended[q][i] = wrapping_add(connections[q].recv.irs, ToU32(i))

----------------------------------------------------------------------------
(* C15 *)

\* C15: a segment whose four-tuple has a connection is given to that
\* connection's on_packet; it creates no second connection and does not
\* replace the one there, even when it is a SYN (the connection keeps its irs,
\* iss and endpoints, no SYN is sent in answer, every other connection is as
\* before), and every connection of the table is the one of the four-tuple it
\* is stored under.
C15_Demultiplexing ==
    /\ \A q \in DOMAIN connections :
           connections[q].remote = q.src /\ connections[q].local = q.dst
    /\ (op \in {"on_packet", "accept"} /\ buf.quad \in DOMAIN prev) =>
           /\ op = "on_packet"
           /\ DOMAIN connections = DOMAIN prev
           /\ Cur.recv.irs = Pre.recv.irs
           /\ Cur.send.iss = Pre.send.iss
           /\ Cur.local = Pre.local /\ Cur.remote = Pre.remote
           /\ \A i \in 1..Len(sent) : ~sent[i].syn
           /\ \A q \in DOMAIN prev \ {buf.quad} : connections[q] = prev[q]

\* with connections for both clients in the table, the first client's SYN
\* came again with another sequence number and went to on_packet: the
\* connection still has the irs of its first SYN
C15_Witness ==
    /\ Dispatched
    /\ DOMAIN prev = {Q1, Q2}
    /\ buf.quad = Q1 /\ buf.syn /\ ~buf.ack
    /\ buf.sequence_number = IsnWrap
    /\ Pre.recv.irs = Isn /\ Cur.recv.irs = Isn
    /\ DOMAIN connections = {Q1, Q2}

----------------------------------------------------------------------------
(* C16 *)

\* C16: once close() was called on a connection in Estab, the next time the
\* connection emits a segment a segment with FIN set is emitted, and the
\* connection goes from Estab to FinWait1 (unless the peer's own FIN arrived
\* in the same segment and moves it on).
C16_CloseSendsFin ==
    (/\ Dispatched
     /\ Pre.state = "Estab" /\ Pre.closed
     /\ sent # <<>>) =>
        /\ \E i \in 1..Len(sent) : sent[i].fin
        /\ ~buf.fin => Cur.state = "FinWait1"

----------------------------------------------------------------------------
(* C17 *)

\* C17: when on_packet made a connection readable (its incoming queue became
\* non-empty or its receive side closed), the loop iteration uses the
\* readability on_packet returned to wake the threads waiting on it.
C17_WakeUp ==
    (/\ Dispatched
     /\ status = "running"
     /\ ~is_readable(availability(Pre))
     /\ is_readable(availability(Cur))) =>
        woken

----------------------------------------------------------------------------
(* src/lib.rs: TcpSlice *)

TCP_HEADER_MIN_LEN == 20

\* `x & 0xf0` for a byte x
HighNibble(x) == (x \div 16) * 16

\* TcpSlice::from_slice (lines 20-42).  A slice is the sequence of its bytes;
\* slice[12] of the code is slice[13] here.
from_slice(slice) ==
    IF Len(slice) < TCP_HEADER_MIN_LEN
    THEN [ok |-> FALSE, err |-> Len(slice)]
    ELSE LET offset == HighNibble(slice[13]) \div 4
         IN  IF offset < TCP_HEADER_MIN_LEN
             THEN [ok |-> FALSE, err |-> Len(slice)]
             ELSE [ok |-> TRUE, header_len |-> offset, slice |-> slice]

\* TcpSlice::data_offset (lines 58-60)
data_offset(slice) == HighNibble(slice[13]) \div 16

\* TcpSlice::options (lines 88-90): &self.slice[20..self.header_len] panics
\* when header_len is past the end of the slice
options(t) ==
    IF t.header_len > Len(t.slice)
    THEN [panic |-> TRUE]
    ELSE [panic |-> FALSE,
          bytes |-> SubSeq(t.slice, TCP_HEADER_MIN_LEN + 1, t.header_len)]

\* The slices given to from_slice: every length up to MaxSliceLen, every
\* data offset with two values of the reserved bits next to it, zeroes
\* elsewhere.
MaxSliceLen == 64

SliceOf(n, b12) == [i \in 1..n |-> IF i = 13 THEN b12 ELSE 0]

Slices ==
    {SliceOf(n, 16 * o + r) : n \in 0..MaxSliceLen, o \in 0..15, r \in {0, 9}}

InitSlice ==
    /\ connections = <<>>
    /\ buf = NoDatagram
    /\ sent = <<>>
    /\ status = "running"
    /\ op = "idle"
    /\ invalid_range = FALSE
    /\ prev = <<>>
    /\ steps = 0
    /\ appended = <<>>
    /\ woken = FALSE
    /\ tunnel = <<>>
    /\ arg \in {[fn |-> "from_slice", slice |-> s] : s \in Slices}
    /\ ret = NoCall

\* a caller parses the slice
FromSlice ==
    /\ arg.fn = "from_slice"
    /\ ret = NoCall
    /\ ret' = [fn |-> "from_slice", result |-> from_slice(arg.slice)]
    /\ UNCHANGED <<arg, mainvars>>

\* and asks the header it got for its options
Options ==
    /\ ret.fn = "from_slice"
    /\ ret.result.ok
    /\ ret' = [fn |-> "options", result |-> options(ret.result)]
    /\ UNCHANGED <<arg, mainvars>>

NextSlice == FromSlice \/ Options

SpecSlice == InitSlice /\ [][NextSlice]_vars

----------------------------------------------------------------------------
(* C18 *)

\* C18: from_slice succeeds iff the slice has at least 20 bytes, its data
\* offset is at least 5 and the header length it encodes (data offset x 4) is
\* at most the length of the slice; hence options() of a header that parsed
\* never indexes past the end of the slice.
C18_FromSlice ==
    /\ ret.fn = "from_slice" =>
           (ret.result.ok <=>
               /\ Len(arg.slice) >= 20
               /\ data_offset(arg.slice) >= 5
               /\ data_offset(arg.slice) * 4 <= Len(arg.slice))
    /\ ret.fn = "options" => ~ret.result.panic

----------------------------------------------------------------------------
(* src/lib.rs: CheckSum16.  The sum is a u32, kept as <<hi, lo>>.  The     *)
(* from_ne_bytes of the code read in the byte order of the target; le      *)
(* tells whether that is little-endian.                                     *)

\* u16::from_ne_bytes
u16_from_ne_bytes(d, le) ==
    IF le THEN d[1] + 256 * d[2] ELSE 256 * d[1] + d[2]

\* u32::from_ne_bytes
u32_from_ne_bytes(d, le) ==
    IF le THEN U32(d[3] + 256 * d[4], d[1] + 256 * d[2])
          ELSE U32(256 * d[1] + d[2], 256 * d[3] + d[4])

\* u32::overflowing_add
overflowing_add(a, b) ==
    LET lo == a[2] + b[2]
        hi == a[1] + b[1] + (lo \div Half)
    IN  [sum |-> <<hi % Half, lo % Half>>, carry |-> hi \div Half]

\* CheckSum16::default
CheckSum16Default == [sum |-> U32(0, 0)]

\* lines 127-132
add_2bytes(cs, d, le) ==
    LET r == overflowing_add(cs.sum, U32(0, u16_from_ne_bytes(d, le)))
    IN  [sum |-> wrapping_add(r.sum, U32(0, r.carry))]

\* lines 133-138
add_4bytes(cs, d, le) ==
    LET r == overflowing_add(cs.sum, u32_from_ne_bytes(d, le))
    IN  [sum |-> wrapping_add(r.sum, U32(0, r.carry))]

\* lines 139-142
add_8bytes(cs, d, le) ==
    add_4bytes(add_4bytes(cs, SubSeq(d, 1, 4), le), SubSeq(d, 5, 8), le)

\* lines 143-146
add_16bytes(cs, d, le) ==
    add_8bytes(add_8bytes(cs, SubSeq(d, 1, 8), le), SubSeq(d, 9, 16), le)

\* the loop of lines 149-151, from index i (0-based) up to end
RECURSIVE add_slice_words(_, _, _, _, _)
add_slice_words(cs, slice, i, end, le) ==
    IF i >= end THEN cs
    ELSE add_slice_words(add_4bytes(cs, SubSeq(slice, i + 1, i + 4), le),
                         slice, i + 4, end, le)

\* lines 147-161
add_slice(cs, slice, le) ==
    LET n   == Len(slice)
        end == n - (n % 4)
        c0  == add_slice_words(cs, slice, 0, end, le)
        c1  == IF n - end >= 2
               THEN add_2bytes(c0, <<slice[end + 1], slice[end + 2]>>, le)
               ELSE c0
    IN  IF n % 2 # 0 THEN add_2bytes(c1, <<slice[n], 0>>, le) ELSE c1

\* ones_complement as it would be if the high half were folded in only once
ones_complement_FoldOnce(cs) ==
    LET first == cs.sum[1] + cs.sum[2]
    IN  (Half - 1) - (first % Half)

\* lines 162-171: fold the high half into the low half twice, then `!`
ones_complement(cs) ==
    LET first  == cs.sum[1] + cs.sum[2]
        second == ((first \div Half) + (first % Half)) % Half
    IN  (Half - 1) - second

\* the chained calls of the tests (lines 366-455): the bytes are added k at
\* a time, k one of 2, 4, 8, 16 and a divisor of their number
RECURSIVE add_chunks(_, _, _, _)
add_chunks(cs, bytes, k, le) ==
    IF bytes = <<>> THEN cs
    ELSE LET d == SubSeq(bytes, 1, k)
             c == CASE k = 2  -> add_2bytes(cs, d, le)
                    [] k = 4  -> add_4bytes(cs, d, le)
                    [] k = 8  -> add_8bytes(cs, d, le)
                    [] k = 16 -> add_16bytes(cs, d, le)
         IN  add_chunks(c, SubSeq(bytes, k + 1, Len(bytes)), k, le)

\* The byte strings summed: every string of up to MaxShortLen bytes over 0, 1
\* and 255, the strings of the tests, and 8 and 16 bytes made of four-byte
\* words that carry out of 16 and of 32 bits.
MaxShortLen == 5

ShortBytes == {0, 1, 255}

Words4 == {<<0, 0, 0, 0>>, <<255, 255, 255, 255>>, <<17, 34, 51, 68>>,
           <<255, 0, 0, 1>>}

TestStrings ==
    {<<0, 255>>, <<255, 16>>, <<255, 255>>, <<17, 34, 51, 68>>,
     <<18, 52, 86, 120, 35, 34, 52, 17>>, <<18, 52>>, <<17, 34, 51, 68, 85>>,
     <<17, 18, 19, 20, 21, 22, 23, 24, 33, 34, 35, 36, 37, 38, 39, 40>>}

ByteStrings ==
    UNION {[1..n -> ShortBytes] : n \in 0..MaxShortLen}
    \cup TestStrings
    \cup {a \o b : a \in Words4, b \in Words4}
    \cup {a \o b \o c \o d : a \in Words4, b \in Words4, c \in Words4,
                             d \in Words4}
    \cup {a \o b \o <<x>> : a \in Words4, b \in Words4, x \in {1, 255}}

InitSum ==
    /\ connections = <<>>
    /\ buf = NoDatagram
    /\ sent = <<>>
    /\ status = "running"
    /\ op = "idle"
    /\ invalid_range = FALSE
    /\ prev = <<>>
    /\ steps = 0
    /\ appended = <<>>
    /\ woken = FALSE
    /\ tunnel = <<>>
    /\ arg \in {[fn |-> "checksum", bytes |-> b, le |-> e] :
                   b \in ByteStrings, e \in BOOLEAN}
    /\ ret = NoCall

\* CheckSum16::default().add_slice(bytes).ones_complement()
SumSlice ==
    /\ arg.fn = "checksum"
    /\ ret = NoCall
    /\ ret' = [fn |-> "add_slice",
               value |-> ones_complement(
                             add_slice(CheckSum16Default, arg.bytes, arg.le))]
    /\ UNCHANGED <<arg, mainvars>>

\* the same bytes added k at a time
SumChunks(k) ==
    /\ arg.fn = "checksum"
    /\ ret = NoCall
    /\ arg.bytes # <<>>
    /\ Len(arg.bytes) % k = 0
    /\ ret' = [fn |-> "add_chunks", k |-> k,
               value |-> ones_complement(
                             add_chunks(CheckSum16Default, arg.bytes, k, arg.le))]
    /\ UNCHANGED <<arg, mainvars>>

NextSum ==
    \/ SumSlice
    \/ \E k \in {2, 4, 8, 16} : SumChunks(k)

SpecSum == InitSum /\ [][NextSum]_vars

----------------------------------------------------------------------------
(* C19 *)

\* the one's-complement sum of the 16-bit words of bytes, a last odd byte
\* padded with a zero byte: each word is added with end-around carry
RECURSIVE EndAroundSum(_, _, _)
EndAroundSum(bytes, le, s) ==
    IF bytes = <<>> THEN s
    ELSE LET b2 == IF Len(bytes) = 1 THEN 0 ELSE bytes[2]
             w  == IF le THEN bytes[1] + 256 * b2 ELSE 256 * bytes[1] + b2
             t  == s + w
             rest == IF Len(bytes) = 1 THEN <<>>
                     ELSE SubSeq(bytes, 3, Len(bytes))
         IN  EndAroundSum(rest, le, IF t > 65535 THEN t - 65535 ELSE t)

\* C19: for any byte string, CheckSum16 (add_slice, or add_2bytes,
\* add_4bytes, add_8bytes or add_16bytes over the whole string, then
\* ones_complement) gives the bitwise complement of the one's-complement sum
\* of the string's 16-bit words, an odd last byte padded with zero; so the
\* result is the same whether the words are added 2, 4, 8 or 16 bytes at a
\* time.
C19_InternetChecksum ==
    ret.fn \in {"add_slice", "add_chunks"} =>
        ret.value = 65535 - EndAroundSum(arg.bytes, arg.le, 0)

\* 0xffff + 0xffff + 0x0001, little-endian, by add_slice: the 32-bit sum
\* overflows, the carry comes back in, and the odd last byte is padded
C19_Witness ==
    /\ ret.fn = "add_slice"
    /\ arg.bytes = <<255, 255, 255, 255, 1>> /\ arg.le
    /\ ret.value = 65534

----------------------------------------------------------------------------
(* C20 *)

\* C20: for an acceptable segment with ACK set given to a connection in
\* Estab, FinWait1 or FinWait2, send.una becomes SEG.ACK iff
\* send.una < SEG.ACK <= send.nxt in modulo-2^32 order; an ACK equal to
\* send.una, below it or above send.nxt leaves send.una as it was.
C20_AckMovesUna ==
    (/\ Dispatched
     /\ Pre.state \in {"Estab", "FinWait1", "FinWait2"}
     /\ buf.ack
     /\ Acceptable(Pre, buf)) =>
        IF /\ SeqLess(Pre.send.una, buf.acknowledgment_number)
           /\ SeqLeq(buf.acknowledgment_number, Pre.send.nxt)
        THEN Cur.send.una = buf.acknowledgment_number
        ELSE Cur.send.una = Pre.send.una

----------------------------------------------------------------------------
(* The application's write.  src/tcp.rs declares the unacked queue          *)
(* (line 112) and nothing under src/ puts bytes on it; the write of the     *)
(* stream that does is taken from section 4.5 of the specification.         *)

\* the capacity of the unacked queue
UNACKED_CAPACITY == 1024

\* write(buf) on a stream: "would block" when the queue is at capacity, else
\* up to min(remaining capacity, buf.len) bytes are appended; no segment is
\* emitted
StreamWrite(q, bytes) ==
    /\ Idle
    /\ q \in DOMAIN connections
    /\ Len(connections[q].unacked) < UNACKED_CAPACITY
    /\ connections' = [connections EXCEPT ![q].unacked =
           @ \o SubSeq(bytes, 1, Min(UNACKED_CAPACITY - Len(@), Len(bytes)))]
    /\ sent' = <<>>
    /\ op' = "write"
    /\ invalid_range' = FALSE
    /\ prev' = connections
    /\ steps' = steps + 1
    /\ tunnel' = <<>>
    /\ UNCHANGED <<buf, status, appended, woken, arg, ret>>

\* what the application writes
Abc == <<97, 98, 99>>

NextWrite ==
    \/ Next
    \/ \E q \in {Q1} : StreamWrite(q, Abc)

SpecWrite == Init /\ [][NextWrite]_vars

----------------------------------------------------------------------------
(* C21 *)

\* C21: when an ACK moves send.una from u to SEG.ACK in Estab, FinWait1 or
\* FinWait2, exactly (SEG.ACK - u) mod 2^32 bytes leave the front of the
\* connection's unacked queue, or all of them if it holds fewer.
C21_AckedBytesDequeued ==
    (/\ Dispatched
     /\ Pre.state \in {"Estab", "FinWait1", "FinWait2"}
     /\ Cur.send.una # Pre.send.una
     /\ Cur.send.una = buf.acknowledgment_number) =>
        LET n == wrapping_sub(buf.acknowledgment_number, Pre.send.una)
        IN  Cur.unacked =
                IF n[1] > 0 \/ n[2] > Len(Pre.unacked)
                THEN <<>>
                ELSE SubSeq(Pre.unacked, n[2] + 1, Len(Pre.unacked))

----------------------------------------------------------------------------
(* C22 *)

\* the last step gave on_packet a segment that carries ACK and passed the
\* range check, so that the call went through the ACK processing
Processed == Dispatched /\ ~invalid_range /\ buf.ack /\ status = "running"

\* our FIN is acknowledged: send.una = send.iss + 2
FinAcked(c) == c.send.una = wrapping_add(c.send.iss, ToU32(2))

\* without a FIN, FinWait1 becomes FinWait2 exactly when send.una = iss + 2
FinWait1ToFinWait2 ==
    (Processed /\ Pre.state = "FinWait1" /\ ~buf.fin) =>
        /\ Cur.state \in {"FinWait1", "FinWait2"}
        /\ Cur.state = "FinWait2" <=> FinAcked(Cur)

\* a FIN in FinWait1: TimeWait when its ACK acknowledged our FIN, else
\* Closing and an ACK is emitted
FinInFinWait1 ==
    (Processed /\ Pre.state = "FinWait1" /\ buf.fin) =>
        IF FinAcked(Cur)
        THEN Cur.state = "TimeWait"
        ELSE /\ Cur.state = "Closing"
             /\ Len(sent) >= 1
             /\ IsAck(sent[Len(sent)], Pre.send.nxt, Cur.recv.nxt)

\* a FIN in FinWait2: TimeWait, and the ACK that answers the FIN (the last
\* segment of the call) has seq = send.nxt and ack = recv.nxt
FinInFinWait2 ==
    (Processed /\ Pre.state = "FinWait2" /\ buf.fin) =>
        /\ Cur.state = "TimeWait"
        /\ Len(sent) >= 1
        /\ IsAck(sent[Len(sent)], Pre.send.nxt, Cur.recv.nxt)

\* a FIN in CloseWait, Closing or TimeWait leaves the state as it is
FinAfterClose ==
    (Dispatched /\ buf.fin /\ Pre.state \in {"CloseWait", "Closing", "TimeWait"}) =>
        Cur.state = Pre.state

\* C22: in on_packet, FinWait1 becomes FinWait2 exactly when send.una =
\* send.iss + 2 after the ACK processing; a FIN with ACK in FinWait1 ends in
\* TimeWait when the ACK acknowledged our FIN and otherwise in Closing with an
\* ACK emitted; a FIN in FinWait2 emits an ACK with seq = send.nxt and
\* ack = recv.nxt and ends in TimeWait; a FIN in CloseWait, Closing or
\* TimeWait changes no state.
C22_ActiveClose ==
    /\ FinWait1ToFinWait2
    /\ FinInFinWait1
    /\ FinInFinWait2
    /\ FinAfterClose

----------------------------------------------------------------------------
(* C23 *)

\* the last step gave on_packet, in SynRcvd, a segment in range whose ACK is
\* not acceptable: the connection stays in SynRcvd and send_rst is called
ResetSent == Processed /\ Pre.state = "SynRcvd" /\ Cur.state = "SynRcvd"

\* C23: the segment that send_rst emits for an unacceptable ACK in SynRcvd
\* has the RST flag set, sequence number 0 and acknowledgment number 0.
C23_ResetSegment ==
    ResetSent =>
        /\ Len(sent) = 1
        /\ sent[1].rst
        /\ sent[1].sequence_number = ToU32(0)
        /\ sent[1].acknowledgment_number = ToU32(0)

----------------------------------------------------------------------------
(* The packet loop over a tunnel whose send may fail *)

\* what the (at most two) calls of nic.send of one step return: Ok or Err
Tunnels == {<<TRUE, TRUE>>, <<TRUE, FALSE>>, <<FALSE, TRUE>>, <<FALSE, FALSE>>}

\* the segments of one peer at its ISN and right after it
TunnelSegments ==
    {seg \in ControlSegments(Q1) \cup DataSegments(Q1) :
        seg.sequence_number \in {Isn, U32(0, 1001)}}

NextTunnel ==
    \/ RecvFails
    \/ \E d \in {ShortTotalLen} : RecvBadLength(d)
    \/ \E d \in Junk : RecvDropped(d)
    \/ \E seg \in TunnelSegments, nic \in Tunnels : RecvOccupied(seg, nic)
    \/ \E seg \in TunnelSegments, nic \in Tunnels : RecvVacant(seg, nic)
    \/ \E q \in {Q1} : Close(q)
    \/ \E q \in {Q1}, nic \in Tunnels : SendFin(q, nic)
    \/ LoopAgain

SpecTunnel == Init /\ [][NextTunnel]_vars

----------------------------------------------------------------------------
(* C24 *)

\* the last step was an accept that made a connection: its one write is the
\* SYN+ACK, sent with seq = iss and the template's SYN set
Accepted == Offered /\ buf.quad \in DOMAIN connections \ DOMAIN prev

\* the last step was a send_fin on the connection of Q1: its one write is
\* the FIN, sent with seq = send.nxt and the template's FIN set
FinWritten == op = "send_fin" /\ Q1 \in DOMAIN prev

\* C24: write sets send.nxt to seq + payload bytes + 1 for SYN + 1 for FIN
\* and clears the template's SYN and FIN only after the tunnel send succeeded;
\* when the tunnel send fails, send.nxt and the template's SYN and FIN are
\* what they were before the call.
C24_WriteCommitsAfterSend ==
    /\ Accepted =>
          IF tunnel[1]
          THEN /\ Cur.send.nxt = wrapping_add(Cur.send.iss, ToU32(1))
               /\ ~Cur.tcph.syn /\ ~Cur.tcph.fin
          ELSE /\ Cur.send.nxt = Cur.send.iss
               /\ Cur.tcph.syn /\ ~Cur.tcph.fin
    /\ FinWritten =>
          IF tunnel[1]
          THEN /\ connections[Q1].send.nxt =
                      wrapping_add(prev[Q1].send.nxt, ToU32(1))
               /\ ~connections[Q1].tcph.syn /\ ~connections[Q1].tcph.fin
          ELSE /\ connections[Q1].send.nxt = prev[Q1].send.nxt
               /\ connections[Q1].tcph.fin

----------------------------------------------------------------------------
(* The sequence-number comparisons of src/tcp.rs, called on their own *)

\* 0, 1, 1000, 2^31 - 1, 2^31, 2^31 + 1, 2^31 + 5, 2^32 - 1
SeqValues ==
    {U32(0, 0), U32(0, 1), U32(0, 1000), U32(32767, 65535), U32(32768, 0),
     U32(32768, 1), U32(32768, 5), U32(65535, 65535)}

InitSeq ==
    /\ connections = <<>>
    /\ buf = NoDatagram
    /\ sent = <<>>
    /\ status = "running"
    /\ op = "idle"
    /\ invalid_range = FALSE
    /\ prev = <<>>
    /\ steps = 0
    /\ appended = <<>>
    /\ woken = FALSE
    /\ tunnel = <<>>
    /\ arg \in {[fn |-> "seq", start |-> s, target |-> t, end |-> e] :
                   s \in SeqValues, t \in SeqValues, e \in SeqValues}
    /\ ret = NoCall

\* wrapping_lt(start, target)
WrappingLt ==
    /\ arg.fn = "seq"
    /\ ret = NoCall
    /\ ret' = [fn |-> "wrapping_lt", value |-> wrapping_lt(arg.start, arg.target)]
    /\ UNCHANGED <<arg, mainvars>>

\* is_between_wrapped(start, target, end)
IsBetweenWrapped ==
    /\ arg.fn = "seq"
    /\ ret = NoCall
    /\ ret' = [fn |-> "is_between_wrapped",
               value |-> is_between_wrapped(arg.start, arg.target, arg.end)]
    /\ UNCHANGED <<arg, mainvars>>

NextSeq ==
    \/ WrappingLt
    \/ IsBetweenWrapped

SpecSeq == InitSeq /\ [][NextSeq]_vars

----------------------------------------------------------------------------
(* C25 *)

\* x < y for two numbers below 2^32 given by their 16-bit halves
PairLess(x, y) == x[1] < y[1] \/ (x[1] = y[1] /\ x[2] < y[2])

\* 2^31
TwoTo31 == U32(Half \div 2, 0)

\* (a - b) mod 2^32 exceeds 2^31
ExceedsHalfRing(a, b) == PairLess(TwoTo31, wrapping_sub(a, b))

\* 0 < (target - start) mod 2^32 < (end - start) mod 2^32
InOpenInterval(start, target, end) ==
    /\ target # start
    /\ PairLess(wrapping_sub(target, start), wrapping_sub(end, start))

\* what wrapping_lt returned is the comparison against 2^31
WrappingLtIsHalfRing ==
    ret.fn = "wrapping_lt" =>
        (ret.value <=> ExceedsHalfRing(arg.start, arg.target))

\* the statement as the specification has it: wrapping_lt(a, b) iff
\* (a - b) mod 2^32 > 2^31, and for ALL start, target, end
\* is_between_wrapped is membership in the open circular interval
C25_AsStated ==
    /\ WrappingLtIsHalfRing
    /\ ret.fn = "is_between_wrapped" =>
          (ret.value <=> InOpenInterval(arg.start, arg.target, arg.end))

\* C25: wrapping_lt(a, b) is true iff (a - b) mod 2^32 exceeds 2^31, and for
\* all 32-bit start, target, end with (end - start) mod 2^32 at most 2^31,
\* is_between_wrapped(start, target, end) is true iff target lies in the
\* strict open circular interval (start, end), i.e.
\* 0 < (target - start) mod 2^32 < (end - start) mod 2^32.
C25_SequenceArithmetic ==
    /\ WrappingLtIsHalfRing
    /\ (/\ ret.fn = "is_between_wrapped"
        /\ ~PairLess(TwoTo31, wrapping_sub(arg.end, arg.start))) =>
          (ret.value <=> InOpenInterval(arg.start, arg.target, arg.end))

\* 2^32 - 1 < 0 < 1000 around the wrap: the interval is 1001 long
C25_Witness ==
    /\ ret.fn = "is_between_wrapped"
    /\ arg.start = U32(65535, 65535)
    /\ arg.target = U32(0, 0)
    /\ arg.end = U32(0, 1000)
    /\ ret.value

----------------------------------------------------------------------------
(* C26 *)

\* C26: on_packet never aborts the packet loop: whatever segment an existing
\* connection is given, also an acceptable one with SYN set, ACK clear and a
\* payload, the assertion that the payload is empty holds and on_packet
\* returns normally.
C26_OnPacketReturns ==
    Dispatched => status = "running"

----------------------------------------------------------------------------
(* C27 *)

\* C27: only the segment that send_rst emits carries RST: every other
\* segment a connection emits, through send_ack or write, has RST clear,
\* also after an earlier RST and a handshake completed later.
C27_RstOnlyFromSendRst ==
    \A i \in 1..Len(sent) : sent[i].rst => ResetSent

----------------------------------------------------------------------------
(* C28 *)

\* the transitions on_packet may make in one step of its code
PacketEdges ==
    {<<"SynRcvd", "Estab">>, <<"Estab", "CloseWait">>,
     <<"FinWait1", "FinWait2">>, <<"FinWait1", "Closing">>,
     <<"FinWait2", "TimeWait">>}

\* the transition that only send_fin makes
FinEdge == <<"Estab", "FinWait1">>

\* R followed by S
Compose(R, S) ==
    {p \in States \X States :
        \E m \in States : <<p[1], m>> \in R /\ <<m, p[2]>> \in S}

\* staying, or any composition of edges of E (a path has at most 6 edges)
Paths(E) ==
    LET R1 == E \cup {<<s, s>> : s \in States}
        R2 == Compose(R1, R1)
        R4 == Compose(R2, R2)
    IN  Compose(R4, R4)

\* C28: state transitions are one-way.  Across one on_packet or send_fin call
\* a connection's state stays or moves along SynRcvd -> Estab,
\* Estab -> CloseWait, Estab -> FinWait1 (send_fin only),
\* FinWait1 -> FinWait2, FinWait1 -> Closing, FinWait2 -> TimeWait or a
\* composition of these; no step of the program brings a connection back to
\* SynRcvd or Estab, or out of CloseWait, Closing or TimeWait.
C28_OneWayTransitions ==
    \A q \in DOMAIN prev :
        LET from == prev[q].state
            to   == connections[q].state
        IN  /\ q \in DOMAIN connections
            /\ <<from, to>> \in
                  Paths(IF op = "send_fin"
                        THEN PacketEdges \cup {FinEdge}
                        ELSE PacketEdges)
            /\ op \notin {"on_packet", "send_fin"} => to = from
            /\ from \in {"CloseWait", "Closing", "TimeWait"} => to = from
            /\ to = "SynRcvd" => from = "SynRcvd"
            /\ to = "Estab" => from \in {"SynRcvd", "Estab"}

\* one segment, a FIN whose ACK acknowledges our FIN, takes a connection
\* from FinWait1 through FinWait2 to TimeWait
C28_Witness ==
    /\ Dispatched
    /\ Pre.state = "FinWait1"
    /\ Cur.state = "TimeWait"

=============================================================================
